---- MODULE Spec2Model ----
\* A model of workloads/eventfd.c: the eventfd signalling micro-benchmark.
\* main is one sequential process; each action is one statement of main, with
\* the kernel objects it touches (the eventfd counter, the process CPU clock,
\* standard output) as part of the state.
EXTENDS Integers, Sequences, FiniteSets, TLC

\* Largest CPU-time reading the process clock takes in a run (ticks).
MaxTick == 2

\* Stand-in for the eventfd counter maximum 0xfffffffffffffffe: the largest
\* limit that TLC's integers hold. It is below the real maximum, so a write
\* that does not block under it does not block on a real kernel either.
CounterLimit == 2147483646

\* int c = 1000 * 100;
N == 1000 * 100

\* What eventfd(0, 0) can return: -1 on failure, else the lowest free
\* descriptor number (0, 1 and 2 are the standard streams).
EventfdResults == {-1, 3}

VARIABLES
    pc,        \* the statement main executes next
    run,       \* which execution of the program this is (1 or 2)
    fd,        \* int fd
    c,         \* int c
    start,     \* clock_t start
    end,       \* clock_t end
    status,    \* exit status of the process, -1 while it runs
    cpu,       \* process CPU time at the last reading of the clock
    fdState,   \* "none", "open" or "closed": the kernel's eventfd object
    count,     \* the eventfd object's 64-bit counter
    stdout,    \* the lines written to standard output, oldest first
    ops,       \* the operations main has applied to the descriptor
    nCreate,   \* calls of eventfd() in this run
    nWrites,   \* calls of eventfd_write() in this run
    nOk,       \* those that returned 0
    nFail,     \* those that returned -1
    nDec,      \* evaluations of c-- in this run
    printed,   \* lines this run has written
    events     \* the run's steps in order, repeated signals written once

vars == <<pc, run, fd, c, start, end, status, cpu, fdState, count, stdout,
          ops, nCreate, nWrites, nOk, nFail, nDec, printed, events>>

\* The per-process part of the state, as a fresh process has it on entry to
\* main: no descriptor, c as its initialiser sets it, nothing called yet.
Fresh ==
    [pc |-> "eventfd", fd |-> -1, c |-> N, start |-> 0, end |-> 0,
     status |-> -1, cpu |-> 0, fdState |-> "none", count |-> 0, ops |-> {},
     nCreate |-> 0, nWrites |-> 0, nOk |-> 0, nFail |-> 0, nDec |-> 0,
     printed |-> 0, events |-> <<>>]

Init ==
    /\ pc = Fresh.pc
    /\ fd = Fresh.fd
    /\ c = Fresh.c
    /\ start = Fresh.start
    /\ end = Fresh.end
    /\ status = Fresh.status
    /\ cpu = Fresh.cpu
    /\ fdState = Fresh.fdState
    /\ count = Fresh.count
    /\ ops = Fresh.ops
    /\ nCreate = Fresh.nCreate
    /\ nWrites = Fresh.nWrites
    /\ nOk = Fresh.nOk
    /\ nFail = Fresh.nFail
    /\ nDec = Fresh.nDec
    /\ printed = Fresh.printed
    /\ events = Fresh.events
    /\ run = 1
    /\ stdout = <<>>

\* The event log: a signal following a signal is not written again.
Log(e) ==
    IF e = "signal" /\ events # <<>> /\ events[Len(events)] = "signal"
    THEN events
    ELSE Append(events, e)

\* Eventfd as it would be were the result checked: if (fd < 0) return 1;
Eventfd_ExitOnFailure ==
    /\ pc = "eventfd"
    /\ \E r \in EventfdResults :
        /\ fd' = r
        /\ fdState' = IF r >= 0 THEN "open" ELSE "none"
        /\ pc' = IF r >= 0 THEN "sleep1" ELSE "exited"
        /\ status' = IF r >= 0 THEN status ELSE 1
    /\ count' = 0
    /\ nCreate' = nCreate + 1
    /\ events' = Log("create")
    /\ UNCHANGED <<run, c, start, end, cpu, stdout, ops, nWrites,
                   nOk, nFail, nDec, printed>>

\* Eventfd as it would be with a non-zero initial value: eventfd(1, 0)
Eventfd_InitOne ==
    /\ pc = "eventfd"
    /\ \E r \in EventfdResults :
        /\ fd' = r
        /\ fdState' = IF r >= 0 THEN "open" ELSE "none"
        /\ count' = IF r >= 0 THEN 1 ELSE 0
    /\ nCreate' = nCreate + 1
    /\ events' = Log("create")
    /\ pc' = "sleep1"
    /\ UNCHANGED <<run, c, start, end, status, cpu, stdout, ops, nWrites,
                   nOk, nFail, nDec, printed>>

\* int fd = eventfd(0, 0);
Eventfd ==
    /\ pc = "eventfd"
    /\ \E r \in EventfdResults :
        /\ fd' = r
        /\ fdState' = IF r >= 0 THEN "open" ELSE "none"
    /\ count' = 0
    /\ nCreate' = nCreate + 1
    /\ events' = Log("create")
    /\ pc' = "sleep1"
    /\ UNCHANGED <<run, c, start, end, status, cpu, stdout, ops, nWrites,
                   nOk, nFail, nDec, printed>>

\* nanosleep(&tim, NULL); the result is not looked at
Nanosleep(at, next) ==
    /\ pc = at
    /\ events' = Log("sleep")
    /\ pc' = next
    /\ UNCHANGED <<run, fd, c, start, end, status, cpu, fdState, count,
                   stdout, ops, nCreate, nWrites, nOk, nFail, nDec, printed>>

\* Sleep1 as it would be with start = clock() left out
Sleep1_NoStart == Nanosleep("sleep1", "loop")

Sleep1 == Nanosleep("sleep1", "start")

Sleep2 == Nanosleep("sleep2", "return")

\* clock(): the CPU time the process has used, which never runs backwards
Clock(t) == t \in cpu .. MaxTick

\* start = clock();
ClockStart ==
    /\ pc = "start"
    /\ \E t \in 0 .. MaxTick :
        /\ Clock(t)
        /\ start' = t
        /\ cpu' = t
    /\ events' = Log("clock")
    /\ pc' = "loop"
    /\ UNCHANGED <<run, fd, c, end, status, fdState, count, stdout, ops,
                   nCreate, nWrites, nOk, nFail, nDec, printed>>

\* eventfd_write(fd, value) on a blocking descriptor: adds value to the
\* counter and returns 0; returns -1 on a descriptor that is not open; a sum
\* above the counter maximum makes the call wait (the action is not enabled).
EventfdWrite(value) ==
    /\ ops' = ops \cup {"write"}
    /\ nWrites' = nWrites + 1
    /\ IF fd >= 0 /\ fdState = "open"
       THEN /\ count <= CounterLimit - value
            /\ count' = count + value
            /\ nOk' = nOk + 1
            /\ nFail' = nFail
       ELSE /\ count' = count
            /\ nOk' = nOk
            /\ nFail' = nFail + 1

\* LoopIter as it would be were the result checked:
\* while (c--) if (eventfd_write(fd, 1) < 0) break;
LoopIter_BreakOnFailure ==
    /\ pc = "loop"
    /\ c # 0
    /\ c' = c - 1
    /\ nDec' = nDec + 1
    /\ EventfdWrite(1)
    /\ events' = Log("signal")
    /\ pc' = IF nFail' > nFail THEN "end" ELSE "loop"
    /\ UNCHANGED <<run, fd, start, end, status, cpu, fdState, stdout,
                   nCreate, printed>>

\* LoopIter as it would be with the wait side called instead:
\* while (c--) eventfd_read(fd, &v);   a read of a zero counter waits
LoopIter_Read ==
    /\ pc = "loop"
    /\ c # 0
    /\ c' = c - 1
    /\ nDec' = nDec + 1
    /\ ops' = ops \cup {"read"}
    /\ IF fd >= 0 /\ fdState = "open"
       THEN /\ count > 0
            /\ count' = 0
            /\ nFail' = nFail
       ELSE /\ count' = count
            /\ nFail' = nFail + 1
    /\ events' = Log("signal")
    /\ pc' = "loop"
    /\ UNCHANGED <<run, fd, start, end, status, cpu, fdState, stdout,
                   nCreate, nWrites, nOk, printed>>

\* while (c--) eventfd_write(fd, 1);   the test holds
LoopIter ==
    /\ pc = "loop"
    /\ c # 0
    /\ c' = c - 1
    /\ nDec' = nDec + 1
    /\ EventfdWrite(1)
    /\ events' = Log("signal")
    /\ pc' = "loop"
    /\ UNCHANGED <<run, fd, start, end, status, cpu, fdState, stdout,
                   nCreate, printed>>

\* LoopExit as it would be with the decrement outside the test:
\* for (; c; c--) eventfd_write(fd, 1);
LoopExit_NoDecrement ==
    /\ pc = "loop"
    /\ c = 0
    /\ pc' = "end"
    /\ UNCHANGED <<run, fd, c, start, end, status, cpu, fdState, count,
                   stdout, ops, nCreate, nWrites, nOk, nFail, nDec, printed,
                   events>>

\* while (c--) ...   the test fails; c-- still decrements
LoopExit ==
    /\ pc = "loop"
    /\ c = 0
    /\ c' = c - 1
    /\ nDec' = nDec + 1
    /\ pc' = "end"
    /\ UNCHANGED <<run, fd, start, end, status, cpu, fdState, count, stdout,
                   ops, nCreate, nWrites, nOk, nFail, printed, events>>

\* end = clock();
ClockEnd ==
    /\ pc = "end"
    /\ \E t \in 0 .. MaxTick :
        /\ Clock(t)
        /\ end' = t
        /\ cpu' = t
    /\ events' = Log("clock")
    /\ pc' = "printf"
    /\ UNCHANGED <<run, fd, c, start, status, fdState, count, stdout, ops,
                   nCreate, nWrites, nOk, nFail, nDec, printed>>

\* Elapsed with the operands the wrong way round
Elapsed_Swapped == start - end

\* the value handed to printf
Elapsed == end - start

\* Printf as it would be printing both readings: printf("%ld\n%ld\n", ...)
Printf_TwoLines ==
    /\ pc = "printf"
    /\ stdout' = stdout \o <<start, end>>
    /\ printed' = printed + 2
    /\ events' = Log("print")
    /\ pc' = "sleep2"
    /\ UNCHANGED <<run, fd, c, start, end, status, cpu, fdState, count, ops,
                   nCreate, nWrites, nOk, nFail, nDec>>

\* printf("%ld\n", end - start);
Printf ==
    /\ pc = "printf"
    /\ stdout' = Append(stdout, Elapsed)
    /\ printed' = printed + 1
    /\ events' = Log("print")
    /\ pc' = "sleep2"
    /\ UNCHANGED <<run, fd, c, start, end, status, cpu, fdState, count, ops,
                   nCreate, nWrites, nOk, nFail, nDec>>

\* Return as it would be with the descriptor released: close(fd); return 0;
Return_Close ==
    /\ pc = "return"
    /\ status' = 0
    /\ ops' = ops \cup {"close"}
    /\ fdState' = IF fdState = "open" THEN "closed" ELSE fdState
    /\ events' = Log("exit")
    /\ pc' = "exited"
    /\ UNCHANGED <<run, fd, c, start, end, cpu, count, stdout,
                   nCreate, nWrites, nOk, nFail, nDec, printed>>

\* return 0;   the descriptor is not closed by main
Return ==
    /\ pc = "return"
    /\ status' = 0
    /\ events' = Log("exit")
    /\ pc' = "exited"
    /\ UNCHANGED <<run, fd, c, start, end, cpu, fdState, count, stdout, ops,
                   nCreate, nWrites, nOk, nFail, nDec, printed>>

Next ==
    \/ Eventfd
    \/ Sleep1
    \/ ClockStart
    \/ LoopIter
    \/ LoopExit
    \/ ClockEnd
    \/ Printf
    \/ Sleep2
    \/ Return

Spec == Init /\ [][Next]_vars

\* The process is scheduled until it exits.
FairSpec == Spec /\ WF_vars(Next)

\* main as it would be were the counter kept between runs (static int c
\* initialised once, or state carried in a file)
main_KeepsCounter ==
    /\ pc = "exited"
    /\ run = 1
    /\ run' = 2
    /\ pc' = Fresh.pc
    /\ fd' = Fresh.fd
    /\ c' = c
    /\ start' = Fresh.start
    /\ end' = Fresh.end
    /\ status' = Fresh.status
    /\ cpu' = Fresh.cpu
    /\ fdState' = Fresh.fdState
    /\ count' = Fresh.count
    /\ ops' = Fresh.ops
    /\ nCreate' = Fresh.nCreate
    /\ nWrites' = Fresh.nWrites
    /\ nOk' = Fresh.nOk
    /\ nFail' = Fresh.nFail
    /\ nDec' = Fresh.nDec
    /\ printed' = Fresh.printed
    /\ events' = Fresh.events
    /\ UNCHANGED stdout

\* Starting the program again after it has exited: a new process, with its
\* own locals, descriptor table and CPU clock; standard output is the same
\* stream, and nothing else outlives the first process.
main ==
    /\ pc = "exited"
    /\ run = 1
    /\ run' = 2
    /\ pc' = Fresh.pc
    /\ fd' = Fresh.fd
    /\ c' = Fresh.c
    /\ start' = Fresh.start
    /\ end' = Fresh.end
    /\ status' = Fresh.status
    /\ cpu' = Fresh.cpu
    /\ fdState' = Fresh.fdState
    /\ count' = Fresh.count
    /\ ops' = Fresh.ops
    /\ nCreate' = Fresh.nCreate
    /\ nWrites' = Fresh.nWrites
    /\ nOk' = Fresh.nOk
    /\ nFail' = Fresh.nFail
    /\ nDec' = Fresh.nDec
    /\ printed' = Fresh.printed
    /\ events' = Fresh.events
    /\ UNCHANGED stdout

NextSeq == Next \/ main

SpecSeq == Init /\ [][NextSeq]_vars

\* ---------------------------------------------------------------------
\* Properties

\* The statements after the loop, and those before and after the print.
AfterLoop == {"end", "printf", "sleep2", "return", "exited"}

BeforePrint == {"eventfd", "sleep1", "start", "loop", "end", "printf"}

AfterPrint == {"sleep2", "return", "exited"}

\* The steps of a complete run, in order.
Order ==
    <<"create", "sleep", "clock", "signal", "clock", "print", "sleep", "exit">>

IsPrefix(s, t) == Len(s) <= Len(t) /\ SubSeq(t, 1, Len(s)) = s

\* C1: exactly N calls of eventfd_write are issued before main terminates,
\* whether the calls succeed or fail: never more than N, each call either
\* succeeded or failed, and once the loop is left the number is N.
C1_ExactlyNSignals ==
    /\ nWrites \in 0 .. N
    /\ nWrites = nOk + nFail
    /\ pc \in AfterLoop => nWrites = N
    /\ pc \notin AfterLoop \cup {"loop"} => nWrites = 0

\* A run that has exited after N calls, every one of which failed.
C1_Witness == pc = "exited" /\ nWrites = N /\ nFail = N

\* C2: the steps of a run happen in the order create, sleep, start clock,
\* the signals, end clock, print, sleep, exit, each once but the signals; the
\* log of steps is in every state a prefix of that order and is the whole of
\* it at exit, so every signal follows the first clock reading and precedes
\* the second, and no sleep or print lies between the two readings.
C2_FixedOrder ==
    /\ IsPrefix(events, Order)
    /\ pc = "exited" => events = Order /\ nWrites = N
    /\ nWrites > 0 => Len(events) >= 4
    /\ Len(events) >= 5 => pc \in AfterLoop /\ nWrites = N

\* A run that has gone through every step.
C2_Witness == pc = "exited" /\ events = Order /\ nWrites = N /\ printed = 1

\* C3: every run of main terminates, and a terminated run has status 0.
C3_TerminatesWithZero ==
    /\ <>(pc = "exited")
    /\ [](pc = "exited" => status = 0)
    /\ [](pc # "exited" => status = -1)

\* A run that has terminated with status 0 after the whole loop.
C3_Witness == pc = "exited" /\ status = 0 /\ nDec > N

\* C4: a run whose eventfd() failed takes the same steps as one whose
\* eventfd() succeeded: it never leaves the order of steps, and it exits
\* only after N signal calls (all against the invalid descriptor), one
\* printed line and both sleeps, with status 0.
C4_CreationFailureSamePath ==
    (nCreate = 1 /\ fd < 0) =>
        /\ IsPrefix(events, Order)
        /\ pc = "exited" =>
            /\ events = Order
            /\ nWrites = N
            /\ nFail = N
            /\ printed = 1
            /\ status = 0
        /\ pc # "exited" => status = -1

\* A run whose eventfd() failed and that has exited.
C4_Witness ==
    pc = "exited" /\ nCreate = 1 /\ fd < 0 /\ fdState = "none" /\ nFail = N

\* C5: a run writes exactly one line to standard output: nothing up to
\* and including the capture of the end timestamp, one line from the print
\* onward.
C5_OneLine ==
    /\ Len(stdout) = printed
    /\ pc \in BeforePrint => stdout = <<>>
    /\ pc \in AfterPrint => Len(stdout) = 1

\* A run that has exited with its one line written.
C5_Witness == pc = "exited" /\ Len(stdout) = 1 /\ printed = 1

\* C6: the printed value is end - start, the two clock readings around
\* the loop, and is not negative.
C6_NonNegative ==
    /\ \A i \in 1 .. Len(stdout) : stdout[i] >= 0
    /\ pc \in AfterPrint => stdout[Len(stdout)] = end - start /\ start <= end

\* A run that printed a positive elapsed time.
C6_Witness == pc \in AfterPrint /\ stdout[1] > 0 /\ start < end

\* C7 as stated: c lies in 0..N in every state, is 0 after the loop has
\* exited, and is decremented exactly N times.
C7_AsStated ==
    /\ c \in 0 .. N
    /\ pc \in AfterLoop => c = 0 /\ nDec = N

\* C7: c is decremented N + 1 times, the last time by the test that
\* fails: c lies in -1..N in every state, falls by one at each evaluation
\* of c--, is N before the loop and -1 after it has exited, and each
\* decrement but the last is followed by one signal call.
C7_DecrementedPastZero ==
    /\ c \in -1 .. N
    /\ c = N - nDec
    /\ pc \in {"eventfd", "sleep1", "start"} => c = N
    /\ pc = "loop" => c >= 0 /\ nWrites = nDec
    /\ pc \in AfterLoop => c = -1 /\ nDec = N + 1 /\ nWrites = N

\* A run that has left the loop and exited, c being -1.
C7_Witness == pc = "exited" /\ c = -1 /\ nDec = N + 1

\* C8: the second of two runs in sequence starts as the first did and
\* shares nothing with it but standard output: it starts with c = N and no
\* descriptor, its counter starts at 0, it issues N signal calls and prints
\* one line, so that two lines are out when it exits, whatever the first
\* run did.
C8_RunsIndependent ==
    /\ Len(stdout) = (run - 1) + printed
    /\ pc = "eventfd" => /\ c = N
                         /\ count = 0
                         /\ nWrites = 0
                         /\ fdState = "none"
    /\ count = nOk
    /\ pc = "exited" => nWrites = N /\ printed = 1 /\ Len(stdout) = run
    /\ pc \in AfterLoop /\ fdState = "open" => count = N

\* The second run has exited: two lines are out.
C8_Witness ==
    run = 2 /\ pc = "exited" /\ Len(stdout) = 2 /\ nWrites = N /\ nCreate = 1

\* C9: the descriptor is created once, only written to, never read or
\* closed; its counter never decreases, and it is open when main exits.
C9_OnlySignalled ==
    /\ [](/\ nCreate <= 1
          /\ pc # "eventfd" => nCreate = 1
          /\ ops \subseteq {"write"}
          /\ fdState # "closed"
          /\ fd >= 0 => fdState = "open")
    /\ [][count' >= count]_vars

\* main has exited with the descriptor open, having only written to it.
C9_Witness ==
    pc = "exited" /\ fd >= 0 /\ fdState = "open" /\ ops = {"write"} /\ count = N

\* C10: with a valid descriptor the counter starts at 0 and equals the
\* number of signal calls completed, so it is N when the loop exits; it
\* stays below the counter maximum, and a signal call is never made to wait.
C10_CounterCountsSignals ==
    fdState = "open" =>
        /\ count = nWrites
        /\ nFail = 0
        /\ count <= N
        /\ N < CounterLimit
        /\ pc \in AfterLoop => count = N
        /\ (pc = "loop" /\ c # 0) => ENABLED LoopIter

\* The loop has exited on a valid descriptor whose counter is N.
C10_Witness == pc = "end" /\ fdState = "open" /\ count = N /\ nOk = N

====
